---------------------------- MODULE Spec2Model ----------------------------
(***************************************************************************)
(* Model of banzaicloud/pipeline's cluster resolution layer                *)
(* (cluster/manager_get.go, the Clusters repository) and of the spotguide  *)
(* scraper and launch pipeline (spotguide/spotguide.go).                   *)
(*                                                                         *)
(* Three specifications share the variables:                               *)
(*   SpecCluster  - the cluster table and the Manager's read operations    *)
(*   SpecScrape   - ScrapeSpotguides against a changing upstream           *)
(*   SpecLaunch   - one LaunchSpotguide call, external call by call        *)
(***************************************************************************)
EXTENDS Integers, Sequences, FiniteSets, TLC

VARIABLES
    clusterModels,   \* the clusters table, in primary-key order
    cret,            \* what the last Manager call returned
    upstream,        \* the repositories of the template organization on the hosting service
    spotguideRepos,  \* the spotguide_repos table, in primary-key order
    spc,             \* where ScrapeSpotguides is: "idle", "list" or "process"
    listPage,        \* listOpts.Page
    allRepositories, \* the repositories collected by the pagination loop
    ridx,            \* position of the loop over allRepositories
    sret,            \* what the last ScrapeSpotguides run returned
    atStart,         \* history: the table when the current or last run started
    dirty,           \* history: upstream changed since the current or last run started
    stable,          \* history: a run returned nil and upstream is as it was when it started
    lastOk,          \* history: the table when that run returned
    request,         \* the caller's LaunchRequest
    archive,         \* the files of the template's "spotguide" release zipball
    lpc,             \* where LaunchSpotguide is
    lerr,            \* the error LaunchSpotguide returned
    started,         \* history: the steps of LaunchSpotguide started so far
    succeeded,       \* history: the steps that returned nil
    sourceRepo,      \* what GetSpotguide returned
    si,              \* position of the loop over request.Secrets
    secretStore,     \* the secrets stored in the secret store
    spotguideEntries,\* what getSpotguideContent returned
    gh,              \* the destination repository on the hosting service
    drone            \* the CI service

clusterVars == <<clusterModels, cret>>

scrapeVars == <<upstream, spotguideRepos, spc, listPage, allRepositories, ridx, sret,
                atStart, dirty, stable, lastOk>>

launchVars == <<request, archive, lpc, lerr, started, succeeded, sourceRepo, si,
                secretStore, spotguideEntries, gh, drone>>

vars == <<clusterVars, scrapeVars, launchVars>>

---------------------------------------------------------------------------
(* Errors.  A Go error is the chain of its layers, outermost first; the    *)
(* last element is the root cause.  nil is the empty chain.                *)

Nil == <<>>

\* errors.New / a library error value: a chain of one layer
NewError(msg) == <<msg>>

\* pkg/errors.Wrap and emperror.Wrap: nil stays nil, otherwise one more
\* layer carrying the message is put around the error.
Wrap(err, msg) == IF err = Nil THEN Nil ELSE <<msg>> \o err

\* pkg/errors.WithStack: a layer without a message of its own
WithStack(err) == IF err = Nil THEN Nil ELSE <<"">> \o err

\* pkg/errors.Cause: strips every layer down to the root cause
Cause(err) == err[Len(err)]

\* the outermost message of an error
Message(err) == err[1]

ErrRecordNotFound == "record not found"
ErrDatabase       == "database error"
ErrClusterNotFound == "cluster not found"

\* clusterModelNotFoundError.NotFound() seen through errors.Cause
IsNotFound(err) == err # Nil /\ Cause(err) = ErrClusterNotFound

---------------------------------------------------------------------------
(* Cluster records and the factory                                         *)

MaxClusters == 3

Organizations == {1, 2}
ClusterNames  == {"alpha", "beta"}
SecretIDs     == {"s1", "s2"}
KnownClouds   == {"amazon"}
Clouds        == KnownClouds \cup {"bogus"}

ClusterModel ==
    [id : 1..(MaxClusters + 1), organization_id : Organizations,
     name : ClusterNames, secret_id : SecretIDs, cloud : Clouds]

NilCluster == [nil |-> TRUE]

\* the zero value of model.ClusterModel
ZeroModel == [id |-> 0, organization_id |-> 0, name |-> "", secret_id |-> "", cloud |-> ""]

\* ClusterFactory: the handle of a record, or an error for a provider the
\* system does not know.
GetCommonClusterFromModel(m) ==
    IF m.cloud \in KnownClouds
    THEN [cluster |-> [nil |-> FALSE, cloud |-> m.cloud, model |-> m], err |-> Nil]
    ELSE [cluster |-> NilCluster, err |-> NewError("not supported cloud type")]

Resolvable(m) == GetCommonClusterFromModel(m).err = Nil

---------------------------------------------------------------------------
(* The Clusters repository.  gorm's First/Find either fail (dbFails) or    *)
(* return the rows that match, in primary-key order.                       *)

All(table, dbFails) ==
    IF dbFails
    THEN [models |-> <<>>, err |-> Wrap(NewError(ErrDatabase), "could not fetch clusters")]
    ELSE [models |-> table, err |-> Nil]

FindByOrganization(table, organizationID, dbFails) ==
    IF dbFails
    THEN [models |-> <<>>, err |-> Wrap(NewError(ErrDatabase), "could not fetch clusters")]
    ELSE [models |-> SelectSeq(table, LAMBDA m : m.organization_id = organizationID),
          err |-> Nil]

FindBySecret(table, organizationID, secretID, dbFails) ==
    IF dbFails
    THEN [models |-> <<>>, err |-> Wrap(NewError(ErrDatabase), "could not fetch clusters")]
    ELSE [models |-> SelectSeq(table, LAMBDA m : m.organization_id = organizationID
                                                  /\ m.secret_id = secretID),
          err |-> Nil]

\* findOneByZeroValue: findOneBy without the IsRecordNotFoundError branch
findOneByZeroValue(matching, field, dbFails) ==
    IF dbFails
    THEN [model |-> ZeroModel,
          err |-> Wrap(NewError(ErrDatabase), "could not get cluster by " \o field)]
    ELSE IF matching = <<>>
    THEN [model |-> ZeroModel, err |-> Nil]
    ELSE [model |-> matching[1], err |-> Nil]

\* findOneBy: matching is the rows that satisfy {field: criteria,
\* organization_id: organizationID}; db.First takes the first of them.
findOneBy(matching, field, dbFails) ==
    IF ~dbFails /\ matching = <<>>
    THEN [model |-> ZeroModel, err |-> WithStack(NewError(ErrClusterNotFound))]
    ELSE IF dbFails
    THEN [model |-> ZeroModel,
          err |-> Wrap(NewError(ErrDatabase), "could not get cluster by " \o field)]
    ELSE [model |-> matching[1], err |-> Nil]

\* a lookup by ID without the organization_id condition
FindOneByIDAnyOrganization(table, organizationID, clusterID, dbFails) ==
    findOneBy(SelectSeq(table, LAMBDA m : m.id = clusterID), "id", dbFails)

FindOneByID(table, organizationID, clusterID, dbFails) ==
    findOneBy(SelectSeq(table, LAMBDA m : m.id = clusterID
                                          /\ m.organization_id = organizationID),
              "id", dbFails)

FindOneByName(table, organizationID, clusterName, dbFails) ==
    findOneBy(SelectSeq(table, LAMBDA m : m.name = clusterName
                                          /\ m.organization_id = organizationID),
              "name", dbFails)

---------------------------------------------------------------------------
(* The Manager's read operations (cluster/manager_get.go)                  *)

NoCall == [op |-> "none", organization_id |-> 0, id |-> 0, name |-> "", secret_id |-> "",
           dbFails |-> FALSE, clusters |-> <<>>, cluster |-> NilCluster, err |-> Nil]

BulkOps   == {"GetClusters", "GetAllClusters", "GetClustersBySecretID"}
SingleOps == {"GetClusterByID", "GetClusterByName"}

RECURSIVE GetClustersLoopAbort(_)
\* the loop of GetClusters with the conversion error ending the loop
GetClustersLoopAbort(models) ==
    IF models = <<>> THEN <<>>
    ELSE LET r == GetCommonClusterFromModel(Head(models)) IN
         IF r.err # Nil THEN <<>>
         ELSE <<r.cluster>> \o GetClustersLoopAbort(Tail(models))

RECURSIVE GetClustersLoop(_)
\* the loop of GetClusters: one record at a time, a conversion error is
\* logged and the record skipped
GetClustersLoop(models) ==
    IF models = <<>> THEN <<>>
    ELSE LET r == GetCommonClusterFromModel(Head(models)) IN
         IF r.err # Nil THEN GetClustersLoop(Tail(models))
         ELSE <<r.cluster>> \o GetClustersLoop(Tail(models))

RECURSIVE getClustersFromModelsReversed(_)
\* getClustersFromModels putting every handle in front of the list
getClustersFromModelsReversed(models) ==
    IF models = <<>> THEN <<>>
    ELSE LET r == GetCommonClusterFromModel(Head(models)) IN
         IF r.err # Nil THEN getClustersFromModelsReversed(Tail(models))
         ELSE getClustersFromModelsReversed(Tail(models)) \o <<r.cluster>>

RECURSIVE getClustersFromModelsAbort(_)
\* getClustersFromModels with the conversion error ending the loop
getClustersFromModelsAbort(models) ==
    IF models = <<>> THEN <<>>
    ELSE LET r == GetCommonClusterFromModel(Head(models)) IN
         IF r.err # Nil THEN <<>>
         ELSE <<r.cluster>> \o getClustersFromModelsAbort(Tail(models))

RECURSIVE getClustersFromModels(_)
\* getClustersFromModels: one record at a time, a conversion error is
\* logged and the record skipped
getClustersFromModels(models) ==
    IF models = <<>> THEN <<>>
    ELSE LET r == GetCommonClusterFromModel(Head(models)) IN
         IF r.err # Nil THEN getClustersFromModels(Tail(models))
         ELSE <<r.cluster>> \o getClustersFromModels(Tail(models))

GetClustersOf(table, organizationID, dbFails) ==
    LET f == FindByOrganization(table, organizationID, dbFails) IN
    [NoCall EXCEPT !.op = "GetClusters", !.organization_id = organizationID,
                   !.dbFails = dbFails,
                   !.clusters = IF f.err # Nil THEN <<>> ELSE GetClustersLoop(f.models),
                   !.err = f.err]

\* GetAllClusters with the error of the fetch dropped
GetAllClustersOfSwallow(table, dbFails) ==
    LET f == All(table, dbFails) IN
    [NoCall EXCEPT !.op = "GetAllClusters", !.dbFails = dbFails,
                   !.clusters = getClustersFromModels(f.models)]

GetAllClustersOf(table, dbFails) ==
    LET f == All(table, dbFails) IN
    [NoCall EXCEPT !.op = "GetAllClusters", !.dbFails = dbFails,
                   !.clusters = IF f.err # Nil THEN <<>> ELSE getClustersFromModels(f.models),
                   !.err = f.err]

GetClustersBySecretIDOf(table, organizationID, secretID, dbFails) ==
    LET f == FindBySecret(table, organizationID, secretID, dbFails) IN
    [NoCall EXCEPT !.op = "GetClustersBySecretID", !.organization_id = organizationID,
                   !.secret_id = secretID, !.dbFails = dbFails,
                   !.clusters = IF f.err # Nil THEN <<>> ELSE getClustersFromModels(f.models),
                   !.err = Wrap(f.err, "could not get cluster from database")]

\* GetClusterByID with the conversion error dropped instead of returned
GetClusterByIDSwallow(table, organizationID, clusterID, dbFails) ==
    LET f == FindOneByID(table, organizationID, clusterID, dbFails) IN
    [NoCall EXCEPT !.op = "GetClusterByID", !.organization_id = organizationID,
                   !.id = clusterID, !.dbFails = dbFails,
                   !.cluster = IF f.err # Nil THEN NilCluster
                               ELSE GetCommonClusterFromModel(f.model).cluster,
                   !.err = Wrap(f.err, "could not get cluster from database")]

GetClusterByIDOf(table, organizationID, clusterID, dbFails) ==
    LET f == FindOneByID(table, organizationID, clusterID, dbFails)
        r == GetCommonClusterFromModel(f.model)
        call == [NoCall EXCEPT !.op = "GetClusterByID", !.organization_id = organizationID,
                               !.id = clusterID, !.dbFails = dbFails]
    IN  IF f.err # Nil
        THEN [call EXCEPT !.err = Wrap(f.err, "could not get cluster from database")]
        ELSE IF r.err # Nil
        THEN [call EXCEPT !.err = Wrap(r.err, "could not get cluster from model")]
        ELSE [call EXCEPT !.cluster = r.cluster]

GetClusterByNameOf(table, organizationID, clusterName, dbFails) ==
    LET f == FindOneByName(table, organizationID, clusterName, dbFails)
        r == GetCommonClusterFromModel(f.model)
        call == [NoCall EXCEPT !.op = "GetClusterByName", !.organization_id = organizationID,
                               !.name = clusterName, !.dbFails = dbFails]
    IN  IF f.err # Nil
        THEN [call EXCEPT !.err = Wrap(f.err, "could not get cluster from database")]
        ELSE IF r.err # Nil
        THEN [call EXCEPT !.err = Wrap(r.err, "could not get cluster from model")]
        ELSE [call EXCEPT !.cluster = r.cluster]

---------------------------------------------------------------------------
(* Actions of the cluster layer                                            *)

\* A record is persisted (the repository's write path): a fresh primary
\* key, and (organization_id, name) stays unique.
CreateClusterModel ==
    /\ Len(clusterModels) < MaxClusters
    /\ \E o \in Organizations, n \in ClusterNames, s \in SecretIDs, c \in Clouds :
          /\ \A i \in 1..Len(clusterModels) :
                ~(clusterModels[i].organization_id = o /\ clusterModels[i].name = n)
          /\ clusterModels' = Append(clusterModels,
                [id |-> Len(clusterModels) + 1, organization_id |-> o, name |-> n,
                 secret_id |-> s, cloud |-> c])
    /\ cret' = NoCall
    /\ UNCHANGED <<scrapeVars, launchVars>>

GetClusters ==
    /\ \E o \in Organizations, dbFails \in BOOLEAN :
          cret' = GetClustersOf(clusterModels, o, dbFails)
    /\ UNCHANGED <<clusterModels, scrapeVars, launchVars>>

GetAllClusters ==
    /\ \E dbFails \in BOOLEAN : cret' = GetAllClustersOf(clusterModels, dbFails)
    /\ UNCHANGED <<clusterModels, scrapeVars, launchVars>>

GetClusterByID ==
    /\ \E o \in Organizations, id \in 1..(MaxClusters + 1), dbFails \in BOOLEAN :
          cret' = GetClusterByIDOf(clusterModels, o, id, dbFails)
    /\ UNCHANGED <<clusterModels, scrapeVars, launchVars>>

GetClusterByName ==
    /\ \E o \in Organizations, n \in ClusterNames, dbFails \in BOOLEAN :
          cret' = GetClusterByNameOf(clusterModels, o, n, dbFails)
    /\ UNCHANGED <<clusterModels, scrapeVars, launchVars>>

GetClustersBySecretID ==
    /\ \E o \in Organizations, s \in SecretIDs, dbFails \in BOOLEAN :
          cret' = GetClustersBySecretIDOf(clusterModels, o, s, dbFails)
    /\ UNCHANGED <<clusterModels, scrapeVars, launchVars>>

ClusterInit ==
    /\ clusterModels = <<>>
    /\ cret = NoCall

---------------------------------------------------------------------------
(* The spotguide catalog and the scraper (spotguide/spotguide.go)          *)

SpotguideGithubTopic == "spotguide"
SpotguideGithubOrganization == "banzaicloud"

MaxRepos == 2
PageCap  == 1
PerPage  == 100

RepoNames  == <<"spotguide-a", "spotguide-b", "spotguide-c", "spotguide-d">>
TopicLists == {<<"docs">>, <<"docs", SpotguideGithubTopic>>}
Manifests  == {"m1", "m2"}

\* github.Repository.GetFullName
GetFullName(repository) == repository.Owner \o "/" \o repository.Name

Min(a, b) == IF a < b THEN a ELSE b

\* Repositories.ListByOrg: the hosting service answers a page request with
\* at most PerPage repositories (it hands out PageCap at a time) and with
\* the number of the next page, 0 when there is none.  Page 0 is page 1.
ListByOrg(repos, page) ==
    LET size  == Min(PerPage, PageCap)
        p     == IF page = 0 THEN 1 ELSE page
        first == (p - 1) * size + 1
        last  == Min(p * size, Len(repos))
    IN  [repositories |-> IF first > last THEN <<>> ELSE SubSeq(repos, first, last),
         NextPage |-> IF last < Len(repos) THEN p + 1 ELSE 0]

\* the rows Where(&model) selects: every non-blank field of model is a
\* condition, and model has Name and SpotguideRaw set
WhereModel(table, model) ==
    {i \in 1..Len(table) : /\ table[i].Name = model.Name
                           /\ table[i].SpotguideRaw = model.SpotguideRaw}

\* the upsert that always inserts
AlwaysCreate(table, model) ==
    Append(table, [ID |-> Len(table) + 1, Name |-> model.Name,
                   SpotguideRaw |-> model.SpotguideRaw])

\* db.Where(&model).Assign(&model).FirstOrCreate(&Repo{}): the first row
\* the conditions select gets the assigned fields, and when they select no
\* row a new one is created from them.
FirstOrCreate(table, model) ==
    LET matching == WhereModel(table, model) IN
    IF matching # {}
    THEN LET i == CHOOSE k \in matching : \A j \in matching : k <= j IN
         [table EXCEPT ![i].Name = model.Name, ![i].SpotguideRaw = model.SpotguideRaw]
    ELSE Append(table, [ID |-> Len(table) + 1, Name |-> model.Name,
                        SpotguideRaw |-> model.SpotguideRaw])

\* the loop over repository.Topics, which stops at the first match
HasSpotguideTopic(repository) ==
    \E t \in 1..Len(repository.Topics) : repository.Topics[t] = SpotguideGithubTopic

\* a lookup that leaves the struct as it is, without an error, when no row
\* has the name
GetSpotguideZeroValue(table, name) ==
    LET matching == {i \in 1..Len(table) : table[i].Name = name} IN
    [repo |-> IF matching = {} THEN [ID |-> 0, Name |-> "", SpotguideRaw |-> ""]
              ELSE table[CHOOSE k \in matching : \A j \in matching : k <= j],
     err |-> Nil]

\* GetSpotguide: db.Where("name = ?", name).Find(&spotguide) fills the
\* struct from the first row of that name, or fails when there is none
GetSpotguide(table, name) ==
    LET matching == {i \in 1..Len(table) : table[i].Name = name} IN
    IF matching = {}
    THEN [repo |-> [ID |-> 0, Name |-> "", SpotguideRaw |-> ""],
          err |-> NewError(ErrRecordNotFound)]
    ELSE [repo |-> table[CHOOSE k \in matching : \A j \in matching : k <= j],
          err |-> Nil]

NoRun == [returned |-> FALSE, err |-> Nil]

\* ScrapeSpotguides is called
ScrapeStart ==
    /\ spc = "idle"
    /\ spc' = "list"
    /\ listPage' = 0
    /\ allRepositories' = <<>>
    /\ sret' = NoRun
    /\ atStart' = spotguideRepos
    /\ dirty' = FALSE
    /\ UNCHANGED <<upstream, spotguideRepos, ridx, stable, lastOk>>
    /\ UNCHANGED <<clusterVars, launchVars>>

\* what a run that returns err leaves in the history variables
ScrapeReturns(err) ==
    /\ spc' = "idle"
    /\ sret' = [returned |-> TRUE, err |-> err]
    /\ IF stable
       THEN UNCHANGED <<stable, lastOk>>
       ELSE /\ stable' = (err = Nil /\ ~dirty)
            /\ lastOk' = IF err = Nil /\ ~dirty THEN spotguideRepos' ELSE lastOk

\* a pagination loop that leaves after its first page, whatever NextPage is
ScrapeListPageFirstOnly ==
    /\ spc = "list"
    /\ \E apiFails \in BOOLEAN :
          IF apiFails
          THEN /\ ScrapeReturns(Wrap(NewError("github API error"),
                                     "failed to list github repositories"))
               /\ UNCHANGED <<listPage, allRepositories, ridx>>
          ELSE LET resp == ListByOrg(upstream, listPage) IN
               /\ allRepositories' = allRepositories \o resp.repositories
               /\ spc' = "process"
               /\ ridx' = 1
               /\ UNCHANGED listPage
               /\ UNCHANGED <<sret, stable, lastOk>>
    /\ UNCHANGED <<upstream, spotguideRepos, atStart, dirty>>
    /\ UNCHANGED <<clusterVars, launchVars>>

\* a pagination loop that goes on to the repositories collected so far
\* when the listing of a page fails
ScrapeListPageSwallow ==
    /\ spc = "list"
    /\ \E apiFails \in BOOLEAN :
          IF apiFails
          THEN /\ spc' = "process"
               /\ ridx' = 1
               /\ UNCHANGED <<listPage, allRepositories>>
          ELSE LET resp == ListByOrg(upstream, listPage) IN
               /\ allRepositories' = allRepositories \o resp.repositories
               /\ IF resp.NextPage = 0
                  THEN /\ spc' = "process"
                       /\ ridx' = 1
                       /\ UNCHANGED listPage
                  ELSE /\ listPage' = resp.NextPage
                       /\ UNCHANGED <<spc, ridx>>
    /\ UNCHANGED <<sret, stable, lastOk>>
    /\ UNCHANGED <<upstream, spotguideRepos, atStart, dirty>>
    /\ UNCHANGED <<clusterVars, launchVars>>

\* one turn of the pagination loop
ScrapeListPage ==
    /\ spc = "list"
    /\ \E apiFails \in BOOLEAN :
          IF apiFails
          THEN /\ ScrapeReturns(Wrap(NewError("github API error"),
                                     "failed to list github repositories"))
               /\ UNCHANGED <<listPage, allRepositories, ridx>>
          ELSE LET resp == ListByOrg(upstream, listPage) IN
               /\ allRepositories' = allRepositories \o resp.repositories
               /\ IF resp.NextPage = 0
                  THEN /\ spc' = "process"
                       /\ ridx' = 1
                       /\ UNCHANGED listPage
                  ELSE /\ listPage' = resp.NextPage
                       /\ UNCHANGED <<spc, ridx>>
               /\ UNCHANGED <<sret, stable, lastOk>>
    /\ UNCHANGED <<upstream, spotguideRepos, atStart, dirty>>
    /\ UNCHANGED <<clusterVars, launchVars>>

\* one turn of the loop over allRepositories
ScrapeRepository ==
    /\ spc = "process"
    /\ ridx <= Len(allRepositories)
    /\ LET repository == allRepositories[ridx] IN
       IF ~HasSpotguideTopic(repository)
       THEN /\ ridx' = ridx + 1
            /\ UNCHANGED <<spotguideRepos, spc, sret, stable, lastOk>>
       ELSE \E downloadFails \in BOOLEAN, dbFails \in BOOLEAN,
               u \in 1..Len(upstream) :
            /\ upstream[u].Owner = repository.Owner
            /\ upstream[u].Name = repository.Name
            /\ IF downloadFails
               THEN /\ UNCHANGED <<spotguideRepos, ridx>>
                    /\ ScrapeReturns(Wrap(NewError("github API error"),
                                          "failed to download spotguide YAML"))
               ELSE IF dbFails
               THEN /\ UNCHANGED <<spotguideRepos, ridx>>
                    /\ ScrapeReturns(NewError(ErrDatabase))
               ELSE LET model == [Name |-> GetFullName(repository),
                                  SpotguideRaw |-> upstream[u].manifest] IN
                    /\ spotguideRepos' = FirstOrCreate(spotguideRepos, model)
                    /\ ridx' = ridx + 1
                    /\ UNCHANGED <<spc, sret, stable, lastOk>>
    /\ UNCHANGED <<upstream, listPage, allRepositories, atStart, dirty>>
    /\ UNCHANGED <<clusterVars, launchVars>>

\* the loop is over: return nil
ScrapeDone ==
    /\ spc = "process"
    /\ ridx > Len(allRepositories)
    /\ UNCHANGED spotguideRepos
    /\ ScrapeReturns(Nil)
    /\ UNCHANGED <<upstream, listPage, allRepositories, ridx, atStart, dirty>>
    /\ UNCHANGED <<clusterVars, launchVars>>

\* a template repository's manifest is changed on the hosting service
UpstreamChange ==
    /\ \E u \in 1..Len(upstream), m \in Manifests :
          /\ m # upstream[u].manifest
          /\ upstream' = [upstream EXCEPT ![u].manifest = m]
    /\ dirty' = TRUE
    /\ stable' = FALSE
    /\ UNCHANGED <<spotguideRepos, spc, listPage, allRepositories, ridx, sret, atStart,
                   lastOk>>
    /\ UNCHANGED <<clusterVars, launchVars>>

\* the scraper at rest over an empty catalog
ScrapeIdle ==
    /\ spotguideRepos = <<>>
    /\ spc = "idle"
    /\ listPage = 0
    /\ allRepositories = <<>>
    /\ ridx = 1
    /\ sret = NoRun
    /\ atStart = <<>>
    /\ dirty = FALSE
    /\ stable = FALSE
    /\ lastOk = <<>>

ScrapeInit ==
    /\ \E n \in 1..MaxRepos :
          upstream \in [1..n -> {[Owner |-> SpotguideGithubOrganization, Name |-> RepoNames[i],
                                  Topics |-> t, manifest |-> "m1"] :
                                 i \in 1..n, t \in TopicLists}]
    /\ \A i \in 1..Len(upstream) : upstream[i].Name = RepoNames[i]
    /\ ScrapeIdle

---------------------------------------------------------------------------
(* The launch pipeline (spotguide/spotguide.go)                            *)

MaxSecrets == 2
MaxFiles   == 2

PipelineYAMLPath == <<".banzaicloud", "pipeline.yaml">>

\* Secret requests.  Tags is a slice: backing is the array behind it, whose
\* first Len(Tags) slots are the tags; DB_PASS has no tags and no array,
\* the array of API_KEY has one slot to spare.
SecretRequests == {[Name |-> "DB_PASS", Tags |-> <<>>, backing |-> <<>>],
                   [Name |-> "API_KEY", Tags |-> <<"app">>, backing |-> <<"app", "">>]}

\* append(tags, tag) on a slice with its backing array: with a slot to
\* spare the tag is written into the array the slice shares, otherwise
\* into a new array; the slice appended to keeps its length either way
AppendTag(sr, tag) ==
    IF Len(sr.backing) > Len(sr.Tags)
    THEN [sr EXCEPT !.Tags = Append(@, tag), !.backing[Len(sr.Tags) + 1] = tag]
    ELSE [sr EXCEPT !.Tags = Append(@, tag), !.backing = Append(sr.Tags, tag)]

SeqsUpTo(S, n) == UNION {[1..k -> S] : k \in 0..n}

LaunchRequests ==
    [SpotguideName : {"banzaicloud/spotguide-a", "banzaicloud/spotguide-b"},
     RepoOrganization : {"acme"}, RepoName : {"proj1"},
     Secrets : SeqsUpTo(SecretRequests, MaxSecrets)]

\* LaunchRequest.RepoFullname
RepoFullname(r) == r.RepoOrganization \o "/" \o r.RepoName

\* A pipeline descriptor with two steps, in the text its author wrote; the
\* bytes of an ordinary file.
Descriptor == [kind |-> "yaml", text |-> "template",
               Pipeline |-> <<[step |-> "build", Secrets |-> <<>>],
                              [step |-> "deploy", Secrets |-> <<"TOKEN">>]>>]
Bytes(b) == [kind |-> "raw", bytes |-> b]

\* Entries of a zip archive.  Name is the entry's name split at "/" (a
\* directory's name ends in "/", so its last segment is empty); Bad marks
\* an entry whose data cannot be read.
ArchiveFiles ==
    {[Name |-> <<"X", "">>, IsDir |-> TRUE, Bad |-> FALSE, content |-> Bytes("")],
     [Name |-> <<"X", "a", "b.txt">>, IsDir |-> FALSE, Bad |-> FALSE, content |-> Bytes("b1")],
     [Name |-> <<"Y", "a", "b.txt">>, IsDir |-> FALSE, Bad |-> FALSE, content |-> Bytes("b2")],
     [Name |-> <<"X", ".banzaicloud", "pipeline.yaml">>, IsDir |-> FALSE, Bad |-> FALSE,
      content |-> Descriptor],
     [Name |-> <<"X", ".banzaicloud", "pipeline.yamldisabled">>, IsDir |-> FALSE,
      Bad |-> FALSE, content |-> Descriptor],
     [Name |-> <<"README">>, IsDir |-> FALSE, Bad |-> FALSE, content |-> Bytes("b3")],
     [Name |-> <<"X", "broken">>, IsDir |-> FALSE, Bad |-> TRUE, content |-> Bytes("")]}

Archives == SeqsUpTo(ArchiveFiles, MaxFiles)

\* strings.SplitN(name, "/", 2): the name itself when it has no "/",
\* otherwise the first segment and the rest
SplitN2(name) == IF Len(name) = 1 THEN <<name>> ELSE <<<<name[1]>>, Tail(name)>>

\* the path itself: the comparison as it is without the "disabled" suffix
PlusNothing(path) == path

\* path + "disabled"
PlusDisabled(path) == [path EXCEPT ![Len(path)] = @ \o "disabled"]

\* droneRepoConfigSecrets: every requested secret name is appended to
\* every step of the pipeline; nothing happens for a request without secrets
droneRepoConfigSecrets(req, repoConfig) ==
    IF Len(req.Secrets) = 0 THEN repoConfig
    ELSE [repoConfig EXCEPT !.Pipeline =
            [k \in 1..Len(repoConfig.Pipeline) |->
                [repoConfig.Pipeline[k] EXCEPT !.Secrets =
                    @ \o [j \in 1..Len(req.Secrets) |-> req.Secrets[j].Name]]]]

\* createDroneRepoConfig: yaml.Unmarshal, then droneRepoConfigSecrets
createDroneRepoConfig(initConfig, req) ==
    IF initConfig.kind # "yaml"
    THEN [repoConfig |-> initConfig, err |-> NewError("yaml: unmarshal error")]
    ELSE [repoConfig |-> droneRepoConfigSecrets(req, initConfig), err |-> Nil]

\* yaml.Marshal(repoConfig): the text the encoder writes, which is not the
\* text of the template (layout, comments and key order are the encoder's)
Marshal(repoConfig) == [repoConfig EXCEPT !.text = "marshalled"]

\* the descriptor handed back as it came in
preparePipelineYAMLVerbatim(req, pipelineYAML) == [content |-> pipelineYAML, err |-> Nil]

\* preparePipelineYAML: createDroneRepoConfig, then yaml.Marshal
preparePipelineYAML(req, pipelineYAML) ==
    LET c == createDroneRepoConfig(pipelineYAML, req) IN
    IF c.err # Nil
    THEN [content |-> pipelineYAML, err |-> Wrap(c.err, "failed to initialize repo config")]
    ELSE [content |-> Marshal(c.repoConfig), err |-> Nil]

NoContent == [entries |-> <<>>, err |-> Nil, panic |-> FALSE]

RECURSIVE extract(_, _, _)
\* the loop of getSpotguideContent over zipReader.File: directories are
\* skipped, the path is element 1 (counting from 0) of SplitN(name, "/", 2)
\* - an index out of range when the name has no "/" -, and only a file at
\* PipelineYAMLPath+"disabled" goes through preparePipelineYAML
extract(files, req, entries) ==
    IF files = <<>> THEN [NoContent EXCEPT !.entries = entries]
    ELSE LET zf == Head(files)
             parts == SplitN2(zf.Name)
         IN  IF zf.IsDir THEN extract(Tail(files), req, entries)
             ELSE IF zf.Bad
             THEN [NoContent EXCEPT !.err = Wrap(NewError("zip: checksum error"),
                       "failed to extract source spotguide repository release")]
             ELSE IF Len(parts) < 2
             THEN [NoContent EXCEPT !.panic = TRUE]
             ELSE LET path == parts[2]
                      prepared == IF path = PlusDisabled(PipelineYAMLPath)
                                  THEN preparePipelineYAML(req, zf.content)
                                  ELSE [content |-> zf.content, err |-> Nil]
                  IN  IF prepared.err # Nil
                      THEN [NoContent EXCEPT
                                !.err = Wrap(prepared.err, "failed to prepare pipeline.yaml")]
                      ELSE extract(Tail(files), req,
                               Append(entries, [Type |-> "blob", Path |-> path,
                                                Content |-> prepared.content,
                                                Mode |-> "100644"]))

Steps == <<"GetSpotguide", "createSecrets", "createGithubRepo", "enableCICD">>

NoRepository == [exists |-> FALSE, seeded |-> FALSE, hasTree |-> FALSE, tree |-> <<>>,
                 parents |-> <<>>, master |-> "none", force |-> FALSE]

\* LaunchSpotguide returns err
LaunchReturns(err) ==
    /\ lpc' = IF err = Nil THEN "done" ELSE "failed"
    /\ lerr' = err

\* createSecrets returned err and LaunchSpotguide returns it wrapped
createSecretsFails(err) ==
    /\ LaunchReturns(Wrap(err, "Failed to create secrets for spotguide"))
    /\ UNCHANGED <<started, succeeded>>

\* createGithubRepo returned err, with the secrets of the launch deleted
createGithubRepoFailsRollback(err) ==
    /\ LaunchReturns(Wrap(err, "Failed to create GitHub repository"))
    /\ secretStore' = <<>>
    /\ UNCHANGED <<started, succeeded>>

\* createGithubRepo returned err and LaunchSpotguide returns it wrapped
createGithubRepoFails(err) ==
    /\ LaunchReturns(Wrap(err, "Failed to create GitHub repository"))
    /\ UNCHANGED <<started, succeeded, secretStore>>

\* enableCICD returned err and LaunchSpotguide returns it wrapped
enableCICDFails(err) ==
    /\ LaunchReturns(Wrap(err, "Failed to enable CI/CD for spotguide"))
    /\ UNCHANGED <<started, succeeded>>

\* LaunchSpotguide without the check of the error of GetSpotguide
LaunchSpotguideNoCheck ==
    /\ lpc = "idle"
    /\ \E r \in LaunchRequests, z \in Archives :
          LET found == GetSpotguide(spotguideRepos, r.SpotguideName)
          IN  /\ request' = r
              /\ archive' = z
              /\ sourceRepo' = found.repo
              /\ lpc' = "createSecrets"
              /\ started' = <<"GetSpotguide", "createSecrets">>
              /\ succeeded' = IF found.err = Nil THEN {"GetSpotguide"} ELSE {}
              /\ UNCHANGED lerr
    /\ si' = 1
    /\ UNCHANGED <<secretStore, spotguideEntries, gh, drone>>
    /\ UNCHANGED <<clusterVars, scrapeVars>>

\* LaunchSpotguide is called: GetSpotguide(request.SpotguideName)
LaunchSpotguide ==
    /\ lpc = "idle"
    /\ \E r \in LaunchRequests, z \in Archives, dbFails \in BOOLEAN :
          LET found == IF dbFails
                       THEN [repo |-> [ID |-> 0, Name |-> "", SpotguideRaw |-> ""],
                             err |-> NewError(ErrDatabase)]
                       ELSE GetSpotguide(spotguideRepos, r.SpotguideName)
          IN  /\ request' = r
              /\ archive' = z
              /\ sourceRepo' = found.repo
              /\ IF found.err # Nil
                 THEN /\ LaunchReturns(Wrap(found.err, "Failed to find spotguide repo"))
                      /\ started' = <<"GetSpotguide">>
                      /\ UNCHANGED succeeded
                 ELSE /\ lpc' = "createSecrets"
                      /\ started' = <<"GetSpotguide", "createSecrets">>
                      /\ succeeded' = {"GetSpotguide"}
                      /\ UNCHANGED lerr
    /\ si' = 1
    /\ UNCHANGED <<secretStore, spotguideEntries, gh, drone>>
    /\ UNCHANGED <<clusterVars, scrapeVars>>

\* a turn of the loop of createSecrets that goes on to the next secret when
\* the store fails
createSecretsStoreContinue ==
    /\ lpc = "createSecrets"
    /\ si <= Len(request.Secrets)
    /\ \E storeFails \in BOOLEAN :
          LET secretRequest == AppendTag(request.Secrets[si], "repo:" \o RepoFullname(request))
          IN  secretStore' = IF storeFails THEN secretStore
                             ELSE Append(secretStore, [Name |-> secretRequest.Name,
                                                      Tags |-> secretRequest.Tags])
    /\ si' = si + 1
    /\ UNCHANGED <<lpc, lerr, started, succeeded>>
    /\ UNCHANGED <<request, archive, sourceRepo, spotguideEntries, gh, drone>>
    /\ UNCHANGED <<clusterVars, scrapeVars>>

\* a turn of the loop of createSecrets that appends the repo tag to the
\* element of request.Secrets itself
createSecretsStoreInPlace ==
    /\ lpc = "createSecrets"
    /\ si <= Len(request.Secrets)
    /\ LET secretRequest == AppendTag(request.Secrets[si], "repo:" \o RepoFullname(request))
       IN  /\ request' = [request EXCEPT !.Secrets[si] = secretRequest]
           /\ \E storeFails \in BOOLEAN :
                 IF storeFails
                 THEN /\ createSecretsFails(Wrap(NewError("secret store error"),
                              "failed to create spotguide secret:" \o secretRequest.Name))
                      /\ UNCHANGED <<secretStore, si>>
                 ELSE /\ secretStore' = Append(secretStore, [Name |-> secretRequest.Name,
                                                             Tags |-> secretRequest.Tags])
                      /\ si' = si + 1
                      /\ UNCHANGED <<lpc, lerr, started, succeeded>>
    /\ UNCHANGED <<archive, sourceRepo, spotguideEntries, gh, drone>>
    /\ UNCHANGED <<clusterVars, scrapeVars>>

\* one turn of the loop of createSecrets: the loop variable, a copy of the
\* secret request, gets the repo tag and is stored.  The copy shares the
\* array behind Tags with the element of request.Secrets, which sees the
\* append in a spare slot of that array and not in its own Tags.
createSecretsStore ==
    /\ lpc = "createSecrets"
    /\ si <= Len(request.Secrets)
    /\ LET secretRequest == AppendTag(request.Secrets[si], "repo:" \o RepoFullname(request))
       IN  /\ request' = [request EXCEPT !.Secrets[si].backing =
                              IF Len(@) > Len(request.Secrets[si].Tags)
                              THEN secretRequest.backing ELSE @]
           /\ \E storeFails \in BOOLEAN :
                 IF storeFails
                 THEN /\ createSecretsFails(Wrap(NewError("secret store error"),
                              "failed to create spotguide secret:" \o secretRequest.Name))
                      /\ UNCHANGED <<secretStore, si>>
                 ELSE /\ secretStore' = Append(secretStore, [Name |-> secretRequest.Name,
                                                             Tags |-> secretRequest.Tags])
                      /\ si' = si + 1
                      /\ UNCHANGED <<lpc, lerr, started, succeeded>>
    /\ UNCHANGED <<archive, sourceRepo, spotguideEntries, gh, drone>>
    /\ UNCHANGED <<clusterVars, scrapeVars>>

\* createSecrets returns nil and createGithubRepo is called
createSecretsReturn ==
    /\ lpc = "createSecrets"
    /\ si > Len(request.Secrets)
    /\ lpc' = "newGithubClientForUser"
    /\ started' = Append(started, "createGithubRepo")
    /\ succeeded' = succeeded \cup {"createSecrets"}
    /\ UNCHANGED <<request, archive, lerr, sourceRepo, si, secretStore, spotguideEntries,
                   gh, drone>>
    /\ UNCHANGED <<clusterVars, scrapeVars>>

\* a call of createGithubRepo that changes nothing on the hosting service:
\* on failure the wrapped error is returned, otherwise the next call is due
GithubCall(at, next, cause, msgs) ==
    /\ lpc = at
    /\ \E fails \in BOOLEAN :
          IF fails
          THEN createGithubRepoFails(
                   IF Len(msgs) = 1 THEN Wrap(NewError(cause), msgs[1])
                   ELSE Wrap(Wrap(NewError(cause), msgs[2]), msgs[1]))
          ELSE lpc' = next /\ UNCHANGED <<lerr, started, succeeded, secretStore>>

newGithubClientForUser ==
    /\ GithubCall("newGithubClientForUser", "Create", "Github token not found for user",
                  <<"failed to create GitHub client">>)
    /\ UNCHANGED <<request, archive, sourceRepo, si, spotguideEntries, gh, drone>>
    /\ UNCHANGED <<clusterVars, scrapeVars>>

\* Repositories.Create
RepositoriesCreate ==
    /\ GithubCall("Create", "CreateFile", "github API error",
                  <<"failed to create spotguide repository">>)
    /\ gh' = IF lpc' = "CreateFile" THEN [gh EXCEPT !.exists = TRUE] ELSE gh
    /\ UNCHANGED <<request, archive, sourceRepo, si, spotguideEntries, drone>>
    /\ UNCHANGED <<clusterVars, scrapeVars>>

\* createGithubRepo going on to the template content whatever
\* Repositories.CreateFile returned
RepositoriesCreateFileIgnoreError ==
    /\ lpc = "CreateFile"
    /\ \E fails \in BOOLEAN :
          gh' = IF fails THEN gh ELSE [gh EXCEPT !.seeded = TRUE, !.master = "seed"]
    /\ lpc' = "GetReleaseByTag"
    /\ UNCHANGED <<lerr, started, succeeded, secretStore>>
    /\ UNCHANGED <<request, archive, sourceRepo, si, spotguideEntries, drone>>
    /\ UNCHANGED <<clusterVars, scrapeVars>>

\* Repositories.CreateFile: README.md in the seed commit
RepositoriesCreateFile ==
    /\ GithubCall("CreateFile", "GetReleaseByTag", "github API error",
                  <<"failed to initialize spotguide repository">>)
    /\ gh' = IF lpc' = "GetReleaseByTag"
             THEN [gh EXCEPT !.seeded = TRUE, !.master = "seed"] ELSE gh
    /\ UNCHANGED <<request, archive, sourceRepo, si, spotguideEntries, drone>>
    /\ UNCHANGED <<clusterVars, scrapeVars>>

\* getSpotguideContent: Repositories.GetReleaseByTag
GetReleaseByTag ==
    /\ GithubCall("GetReleaseByTag", "Download", "github API error",
                  <<"failed to prepare spotguide git content",
                    "failed to find source spotguide repository release">>)
    /\ UNCHANGED <<request, archive, sourceRepo, si, spotguideEntries, gh, drone>>
    /\ UNCHANGED <<clusterVars, scrapeVars>>

\* getSpotguideContent: http.Get, ioutil.ReadAll and zip.NewReader
DownloadZipball ==
    /\ \/ GithubCall("Download", "Extract", "transport error",
                     <<"failed to prepare spotguide git content",
                       "failed to download source spotguide repository release">>)
       \/ /\ lpc = "Download"
          /\ createGithubRepoFails(
                 Wrap(Wrap(NewError("zip: not a valid zip file"),
                           "failed to extract source spotguide repository release"),
                      "failed to prepare spotguide git content"))
    /\ UNCHANGED <<request, archive, sourceRepo, si, spotguideEntries, gh, drone>>
    /\ UNCHANGED <<clusterVars, scrapeVars>>

\* getSpotguideContent: the loop over the files of the archive
getSpotguideContent ==
    /\ lpc = "Extract"
    /\ LET got == extract(archive, request, <<>>) IN
       IF got.panic
       THEN /\ lpc' = "panic"
            /\ UNCHANGED <<lerr, started, succeeded, secretStore, spotguideEntries>>
       ELSE IF got.err # Nil
       THEN /\ createGithubRepoFails(Wrap(got.err, "failed to prepare spotguide git content"))
            /\ UNCHANGED spotguideEntries
       ELSE /\ lpc' = "CreateTree"
            /\ spotguideEntries' = got.entries
            /\ UNCHANGED <<lerr, started, succeeded, secretStore>>
    /\ UNCHANGED <<request, archive, sourceRepo, si, gh, drone>>
    /\ UNCHANGED <<clusterVars, scrapeVars>>

\* Git.CreateTree on the seed commit
GitCreateTree ==
    /\ GithubCall("CreateTree", "CreateCommit", "github API error",
                  <<"failed to create git tree for spotguide repository">>)
    /\ gh' = IF lpc' = "CreateCommit"
             THEN [gh EXCEPT !.hasTree = TRUE, !.tree = spotguideEntries] ELSE gh
    /\ UNCHANGED <<request, archive, sourceRepo, si, spotguideEntries, drone>>
    /\ UNCHANGED <<clusterVars, scrapeVars>>

\* Git.CreateCommit: the tree, with the seed commit as the only parent
GitCreateCommit ==
    /\ GithubCall("CreateCommit", "GetRef", "github API error",
                  <<"failed to create git commit for spotguide repository">>)
    /\ gh' = IF lpc' = "GetRef" THEN [gh EXCEPT !.parents = <<"seed">>] ELSE gh
    /\ UNCHANGED <<request, archive, sourceRepo, si, spotguideEntries, drone>>
    /\ UNCHANGED <<clusterVars, scrapeVars>>

\* Git.GetRef refs/heads/master
GitGetRef ==
    /\ GithubCall("GetRef", "UpdateRef", "github API error",
                  <<"failed to get git ref for spotguide repository">>)
    /\ UNCHANGED <<request, archive, sourceRepo, si, spotguideEntries, gh, drone>>
    /\ UNCHANGED <<clusterVars, scrapeVars>>

\* Git.UpdateRef, not forced; createGithubRepo returns nil and enableCICD
\* is called
GitUpdateRef ==
    /\ lpc = "UpdateRef"
    /\ \E fails \in BOOLEAN :
          IF fails
          THEN /\ createGithubRepoFails(Wrap(NewError("github API error"),
                      "failed to update git ref for spotguide repository"))
               /\ UNCHANGED gh
          ELSE /\ gh' = [gh EXCEPT !.master = "spotguide", !.force = FALSE]
               /\ lpc' = "NewDroneClient"
               /\ started' = Append(started, "enableCICD")
               /\ succeeded' = succeeded \cup {"createGithubRepo"}
               /\ UNCHANGED <<lerr, secretStore>>
    /\ UNCHANGED <<request, archive, sourceRepo, si, spotguideEntries, drone>>
    /\ UNCHANGED <<clusterVars, scrapeVars>>

\* enableCICD: auth.NewDroneClient
NewDroneClient ==
    /\ lpc = "NewDroneClient"
    /\ \E fails \in BOOLEAN :
          IF fails
          THEN enableCICDFails(Wrap(NewError("drone client error"),
                                    "failed to create Drone client"))
          ELSE lpc' = "RepoListOpts" /\ UNCHANGED <<lerr, started, succeeded>>
    /\ UNCHANGED <<request, archive, sourceRepo, si, secretStore, spotguideEntries, gh, drone>>
    /\ UNCHANGED <<clusterVars, scrapeVars>>

\* enableCICD going on to RepoPost whatever RepoListOpts returned
RepoListOptsIgnoreError ==
    /\ lpc = "RepoListOpts"
    /\ \E fails \in BOOLEAN :
          drone' = [drone EXCEPT !.synced = ~fails, !.calls = Append(@, "RepoListOpts")]
    /\ lpc' = "RepoPost"
    /\ UNCHANGED <<lerr, started, succeeded>>
    /\ UNCHANGED <<request, archive, sourceRepo, si, secretStore, spotguideEntries, gh>>
    /\ UNCHANGED <<clusterVars, scrapeVars>>

\* enableCICD: droneClient.RepoListOpts(true, true)
RepoListOpts ==
    /\ lpc = "RepoListOpts"
    /\ \E fails \in BOOLEAN :
          IF fails
          THEN /\ enableCICDFails(Wrap(NewError("drone API error"),
                                       "failed to sync Drone repositories"))
               /\ drone' = [drone EXCEPT !.calls = Append(@, "RepoListOpts")]
          ELSE /\ lpc' = "RepoPost"
               /\ drone' = [drone EXCEPT !.synced = TRUE,
                                         !.calls = Append(@, "RepoListOpts")]
               /\ UNCHANGED <<lerr, started, succeeded>>
    /\ UNCHANGED <<request, archive, sourceRepo, si, secretStore, spotguideEntries, gh>>
    /\ UNCHANGED <<clusterVars, scrapeVars>>

\* enableCICD: droneClient.RepoPost; enableCICD and LaunchSpotguide return nil
RepoPost ==
    /\ lpc = "RepoPost"
    /\ \E fails \in BOOLEAN :
          IF fails
          THEN /\ enableCICDFails(Wrap(NewError("drone API error"),
                                       "failed to sync enable Drone repository"))
               /\ drone' = [drone EXCEPT !.calls = Append(@, "RepoPost")]
          ELSE /\ drone' = [drone EXCEPT !.active = @ \cup {RepoFullname(request)},
                                         !.calls = Append(@, "RepoPost")]
               /\ LaunchReturns(Nil)
               /\ succeeded' = succeeded \cup {"enableCICD"}
               /\ UNCHANGED started
    /\ UNCHANGED <<request, archive, sourceRepo, si, secretStore, spotguideEntries, gh>>
    /\ UNCHANGED <<clusterVars, scrapeVars>>

LaunchIdle ==
    /\ request = [SpotguideName |-> "", RepoOrganization |-> "", RepoName |-> "",
                  Secrets |-> <<>>]
    /\ archive = <<>>
    /\ lpc = "idle"
    /\ lerr = Nil
    /\ started = <<>>
    /\ succeeded = {}
    /\ sourceRepo = [ID |-> 0, Name |-> "", SpotguideRaw |-> ""]
    /\ si = 1
    /\ secretStore = <<>>
    /\ spotguideEntries = <<>>
    /\ gh = NoRepository
    /\ drone = [synced |-> FALSE, active |-> {}, calls |-> <<>>]

\* the catalog before a launch: empty, or as a scrape of spotguide-a left it
LaunchCatalogs ==
    {<<>>, FirstOrCreate(<<>>, [Name |-> "banzaicloud/spotguide-a", SpotguideRaw |-> "m1"])}

---------------------------------------------------------------------------
(* Specifications                                                          *)

NextCluster ==
    \/ CreateClusterModel
    \/ GetClusters
    \/ GetAllClusters
    \/ GetClusterByID
    \/ GetClusterByName
    \/ GetClustersBySecretID

NextScrape ==
    \/ ScrapeStart
    \/ ScrapeListPage
    \/ ScrapeRepository
    \/ ScrapeDone
    \/ UpstreamChange

NextLaunch ==
    \/ LaunchSpotguide
    \/ createSecretsStore
    \/ createSecretsReturn
    \/ newGithubClientForUser
    \/ RepositoriesCreate
    \/ RepositoriesCreateFile
    \/ GetReleaseByTag
    \/ DownloadZipball
    \/ getSpotguideContent
    \/ GitCreateTree
    \/ GitCreateCommit
    \/ GitGetRef
    \/ GitUpdateRef
    \/ NewDroneClient
    \/ RepoListOpts
    \/ RepoPost

InitCluster == ClusterInit /\ upstream = <<>> /\ ScrapeIdle /\ LaunchIdle

InitScrape == ClusterInit /\ ScrapeInit /\ LaunchIdle

InitLaunch ==
    /\ ClusterInit
    /\ upstream = <<>>
    /\ \E c \in LaunchCatalogs :
          /\ spotguideRepos = c
          /\ spc = "idle" /\ listPage = 0 /\ allRepositories = <<>> /\ ridx = 1
          /\ sret = NoRun /\ atStart = <<>> /\ dirty = FALSE /\ stable = FALSE
          /\ lastOk = <<>>
    /\ LaunchIdle

SpecCluster == InitCluster /\ [][NextCluster]_vars

SpecScrape == InitScrape /\ [][NextScrape]_vars

SpecLaunch == InitLaunch /\ [][NextLaunch]_vars

---------------------------------------------------------------------------
(* Claims about the cluster layer                                          *)

\* the table with record m put in front of position p + 1
InsertAt(table, p, m) == SubSeq(table, 1, p) \o <<m>> \o SubSeq(table, p + 1, Len(table))

UnresolvableModels == {m \in ClusterModel : ~Resolvable(m)}

\* the rows a single-record lookup of the last call is about
MatchingLast ==
    {i \in 1..Len(clusterModels) :
        /\ clusterModels[i].organization_id = cret.organization_id
        /\ IF cret.op = "GetClusterByID" THEN clusterModels[i].id = cret.id
           ELSE clusterModels[i].name = cret.name}

\* C4: when GetClusters(O) has fetched the records, it succeeds and returns
\* exactly one handle for each record of O the factory resolves and none
\* for any other record; with one more unresolvable record anywhere in the
\* table the call still succeeds and returns the same handles.
C4_GetClustersResolvableSubset ==
    (cret.op = "GetClusters" /\ ~cret.dbFails) =>
        /\ cret.err = Nil
        /\ \A j \in 1..Len(cret.clusters) :
              /\ cret.clusters[j].nil = FALSE
              /\ \E i \in 1..Len(clusterModels) : cret.clusters[j].model = clusterModels[i]
        /\ \A i \in 1..Len(clusterModels) :
              Cardinality({j \in 1..Len(cret.clusters) :
                              cret.clusters[j].model = clusterModels[i]})
                = IF clusterModels[i].organization_id = cret.organization_id
                     /\ Resolvable(clusterModels[i])
                  THEN 1 ELSE 0
        /\ \A b \in UnresolvableModels, p \in 0..Len(clusterModels) :
              LET again == GetClustersOf(InsertAt(clusterModels, p, b),
                                         cret.organization_id, FALSE)
              IN  again.err = Nil /\ again.clusters = cret.clusters

C4_Witness ==
    /\ cret.op = "GetClusters" /\ ~cret.dbFails
    /\ Len(cret.clusters) >= 1
    /\ \E i \in 1..Len(clusterModels) :
          /\ clusterModels[i].organization_id = cret.organization_id
          /\ ~Resolvable(clusterModels[i])

\* C5: a lookup by ID or by name that finds no record of the organization
\* returns no handle and an error whose cause is still the NotFound error
\* under the wrapping; and no single-record lookup returns a nil error
\* without a handle built from a real record.
C5_LookupMissIsNotFound ==
    /\ (cret.op \in SingleOps /\ ~cret.dbFails /\ MatchingLast = {}) =>
          /\ cret.cluster = NilCluster
          /\ cret.err # Nil
          /\ IsNotFound(cret.err)
          /\ Len(cret.err) > 1
    /\ (cret.op \in SingleOps /\ cret.err = Nil) =>
          /\ cret.cluster # NilCluster
          /\ cret.cluster.model # ZeroModel
          /\ \E i \in MatchingLast : cret.cluster.model = clusterModels[i]

C5_Witness ==
    /\ cret.op = "GetClusterByName" /\ ~cret.dbFails
    /\ MatchingLast = {}
    /\ \E i \in 1..Len(clusterModels) : clusterModels[i].name = cret.name
    /\ IsNotFound(cret.err)

\* C6: a lookup by ID or by name whose record exists but cannot be resolved
\* returns the resolution error ("could not get cluster from model") and no
\* handle; a bulk listing over the same table does not fail and just has no
\* handle for that record.
C6_SingleStrictBulkTolerant ==
    /\ (cret.op \in SingleOps /\ ~cret.dbFails /\ MatchingLast # {}
          /\ \A i \in MatchingLast : ~Resolvable(clusterModels[i])) =>
          /\ cret.cluster = NilCluster
          /\ cret.err # Nil
          /\ Message(cret.err) = "could not get cluster from model"
          /\ ~IsNotFound(cret.err)
          /\ LET bulk == GetClustersOf(clusterModels, cret.organization_id, FALSE)
             IN  /\ bulk.err = Nil
                 /\ \A j \in 1..Len(bulk.clusters), i \in MatchingLast :
                       bulk.clusters[j].model # clusterModels[i]
    /\ (cret.op \in BulkOps /\ ~cret.dbFails) =>
          /\ cret.err = Nil
          /\ \A j \in 1..Len(cret.clusters) : Resolvable(cret.clusters[j].model)

C6_Witness ==
    /\ cret.op = "GetClusterByID" /\ ~cret.dbFails
    /\ MatchingLast # {}
    /\ \A i \in MatchingLast : ~Resolvable(clusterModels[i])
    /\ cret.err # Nil
    /\ \E i \in 1..Len(clusterModels) :
          /\ clusterModels[i].organization_id = cret.organization_id
          /\ Resolvable(clusterModels[i])

---------------------------------------------------------------------------
(* Claims about the scraper                                                *)

C8_OneRecordPerName ==
    /\ \A i, j \in 1..Len(spotguideRepos) :
          spotguideRepos[i].Name = spotguideRepos[j].Name => i = j
    /\ stable =>
          \A u \in 1..Len(upstream) :
             HasSpotguideTopic(upstream[u]) =>
                LET got == GetSpotguide(spotguideRepos, GetFullName(upstream[u]))
                IN  got.err = Nil /\ got.repo.SpotguideRaw = upstream[u].manifest

\* C9: a run that returned an error has left the table as it was when the
\* run started.
C9_FailedRunLeavesNoPartialCatalog ==
    (spc = "idle" /\ sret.returned /\ sret.err # Nil) => spotguideRepos = atStart

---------------------------------------------------------------------------
(* Claims about the launch pipeline                                        *)

IsPrefix(a, b) == Len(a) <= Len(b) /\ SubSeq(b, 1, Len(a)) = a

GithubPcs == {"newGithubClientForUser", "Create", "CreateFile", "GetReleaseByTag",
              "Download", "Extract", "CreateTree", "CreateCommit", "GetRef", "UpdateRef"}
DronePcs  == {"NewDroneClient", "RepoListOpts", "RepoPost"}

\* the step LaunchSpotguide is in, by its position
StepAt(pc) ==
    IF pc = "createSecrets" THEN 2
    ELSE IF pc \in GithubPcs THEN 3
    ELSE IF pc \in DronePcs \/ pc = "done" THEN 4
    ELSE 0

TaggedSecrets(req) ==
    [k \in 1..Len(req.Secrets) |->
        [Name |-> req.Secrets[k].Name,
         Tags |-> req.Secrets[k].Tags \o <<"repo:" \o req.RepoOrganization \o "/" \o req.RepoName>>]]

\* C2: when the launch failed in createGithubRepo, every secret of the
\* request is in the store, tagged, and the error returned is the
\* "Failed to create GitHub repository" wrapping of the failure.
C2_RepoFailureKeepsSecrets ==
    (lpc = "failed" /\ Len(started) = 3) =>
        /\ secretStore = TaggedSecrets(request)
        /\ lerr # Nil
        /\ Message(lerr) = "Failed to create GitHub repository"
        /\ Len(lerr) >= 3

C2_Witness ==
    /\ lpc = "failed" /\ Len(started) = 3
    /\ Len(request.Secrets) = MaxSecrets
    /\ gh.exists

\* the files of the archive that are not directories, in archive order
TemplateFiles == SelectSeq(archive, LAMBDA zf : ~zf.IsDir)

\* the launch provisioned everything but what is said of the descriptor
Provisioned ==
    /\ secretStore = TaggedSecrets(request)
    /\ gh.exists /\ gh.seeded /\ gh.hasTree
    /\ gh.master = "spotguide" /\ gh.parents = <<"seed">>
    /\ Len(gh.tree) = Len(TemplateFiles)
    /\ \A k \in 1..Len(TemplateFiles) :
          /\ gh.tree[k].Path = Tail(TemplateFiles[k].Name)
          /\ gh.tree[k].Type = "blob" /\ gh.tree[k].Mode = "100644"
    /\ drone.synced
    /\ RepoFullname(request) \in drone.active

\* a descriptor that lists every requested secret name in every step
ListsEverySecret(content, req) ==
    /\ content.kind = "yaml"
    /\ \A p \in 1..Len(content.Pipeline), k \in 1..Len(req.Secrets) :
          \E x \in 1..Len(content.Pipeline[p].Secrets) :
             content.Pipeline[p].Secrets[x] = req.Secrets[k].Name

C10_StripsFirstSegment ==
    /\ lpc # "panic"
    /\ lpc = "CreateTree" =>
          /\ Len(spotguideEntries) = Len(TemplateFiles)
          /\ \A k \in 1..Len(TemplateFiles) :
                /\ spotguideEntries[k].Path = Tail(TemplateFiles[k].Name)
                /\ spotguideEntries[k].Path # TemplateFiles[k].Name

\* the path of the only file that goes through preparePipelineYAML
DisabledPath == <<".banzaicloud", "pipeline.yamldisabled">>

SecretNames(req) == {req.Secrets[j].Name : j \in 1..Len(req.Secrets)}

\* C12: a descriptor that went through preparePipelineYAML has the steps
\* of the template in the same order, every step keeps the secrets it had
\* in front, and the number of secrets added to every step is the number
\* of distinct secret names of the request.
C12_AddsDistinctSecretNames ==
    lpc = "CreateTree" =>
        \A k \in 1..Len(spotguideEntries) :
           spotguideEntries[k].Path = DisabledPath =>
              LET old == TemplateFiles[k].content.Pipeline
                  new == spotguideEntries[k].Content.Pipeline
              IN  /\ Len(new) = Len(old)
                  /\ \A p \in 1..Len(old) :
                        /\ new[p].step = old[p].step
                        /\ Len(new[p].Secrets) >= Len(old[p].Secrets)
                        /\ SubSeq(new[p].Secrets, 1, Len(old[p].Secrets)) = old[p].Secrets
                        /\ Len(new[p].Secrets) - Len(old[p].Secrets)
                               = Cardinality(SecretNames(request))

\* C13: the entries getSpotguideContent returns have pairwise distinct
\* paths.
C13_DistinctPaths ==
    lpc = "CreateTree" =>
        \A k, j \in 1..Len(spotguideEntries) :
           k # j => spotguideEntries[k].Path # spotguideEntries[j].Path

\* C14: createSecrets stores the secrets one at a time in request order,
\* each with the tag repo:<RepoOrganization>/<RepoName> added: at every
\* turn the store holds the tagged secrets before the current one; when a
\* store fails the error names that secret, the launch fails with the
\* "Failed to create secrets for spotguide" wrapping, no later secret is
\* stored and the earlier ones stay.
C14_SecretsStoredInOrderUntilFirstError ==
    /\ [](/\ lpc = "createSecrets" =>
                /\ si <= Len(request.Secrets) + 1
                /\ secretStore = SubSeq(TaggedSecrets(request), 1, si - 1)
          /\ (lpc = "failed" /\ Len(started) = 2) =>
                /\ si <= Len(request.Secrets)
                /\ secretStore = SubSeq(TaggedSecrets(request), 1, si - 1)
                /\ Len(lerr) = 3
                /\ lerr[1] = "Failed to create secrets for spotguide"
                /\ lerr[2] = "failed to create spotguide secret:" \o request.Secrets[si].Name
          /\ Len(started) >= 3 => secretStore = TaggedSecrets(request))
    /\ [][(lpc = "failed" /\ Len(started) = 2) => UNCHANGED <<si, secretStore>>]_vars

C14_Witness ==
    /\ lpc = "failed" /\ Len(started) = 2
    /\ si = 2
    /\ Len(secretStore) = 1
    /\ secretStore[1].Name = "API_KEY"
    /\ secretStore[1].Tags = <<"app", "repo:acme/proj1">>

\* C15: enableCICD syncs before it activates, and calls the activation
\* only after a sync that succeeded: not when the client could not be
\* created, not when the sync failed.  When enableCICD fails the launch
\* fails with the "Failed to enable CI/CD for spotguide" wrapping, the
\* repository is not active, and the repository and the secrets created
\* before stay.
C15_ActivatesOnlyAfterSync ==
    /\ IsPrefix(drone.calls, <<"RepoListOpts", "RepoPost">>)
    /\ Len(drone.calls) = 2 => drone.synced
    /\ drone.active # {} => drone.synced /\ Len(drone.calls) = 2
    /\ (lpc = "failed" /\ Len(started) = 4) =>
          /\ Len(lerr) = 3
          /\ lerr[1] = "Failed to enable CI/CD for spotguide"
          /\ lerr[2] = "failed to create Drone client" => drone.calls = <<>>
          /\ lerr[2] = "failed to sync Drone repositories" =>
                drone.calls = <<"RepoListOpts">> /\ ~drone.synced
          /\ lerr[2] = "failed to sync enable Drone repository" => Len(drone.calls) = 2
          /\ drone.active = {}
          /\ gh.exists /\ gh.master = "spotguide"
          /\ secretStore = TaggedSecrets(request)

C15_Witness ==
    /\ lpc = "failed" /\ Len(started) = 4
    /\ lerr[2] = "failed to sync Drone repositories"
    /\ drone.calls = <<"RepoListOpts">>
    /\ Len(secretStore) >= 1

\* C16: when the catalog has no record whose name is the request's
\* SpotguideName, LaunchSpotguide fails with the "Failed to find spotguide
\* repo" wrapping of the lookup's error before anything else happened: no
\* secret stored, no repository created, no CI call.
C16_UnknownTemplateFailsFirst ==
    (/\ lpc # "idle"
     /\ \A k \in 1..Len(spotguideRepos) : spotguideRepos[k].Name # request.SpotguideName) =>
        /\ lpc = "failed"
        /\ started = <<"GetSpotguide">>
        /\ Len(lerr) = 2
        /\ Message(lerr) = "Failed to find spotguide repo"
        /\ secretStore = <<>>
        /\ spotguideEntries = <<>>
        /\ gh = NoRepository
        /\ drone = [synced |-> FALSE, active |-> {}, calls |-> <<>>]

C16_Witness ==
    /\ lpc = "failed"
    /\ Len(spotguideRepos) = 1
    /\ spotguideRepos[1].Name = "banzaicloud/spotguide-a"
    /\ request.SpotguideName = "banzaicloud/spotguide-b"
    /\ Len(request.Secrets) >= 1
    /\ Cause(lerr) = ErrRecordNotFound

\* owner and name of every repository of a list, in list order
FullNames(repos) == [k \in 1..Len(repos) |-> <<repos[k].Owner, repos[k].Name>>]

\* the repositories of the first n pages the hosting service hands out
FirstPages(n) == SubSeq(upstream, 1, Min(n * Min(PerPage, PageCap), Len(upstream)))

\* C17: the pagination loop asks for the first page and then for the page
\* each response names, and leaves when a response names none: while it
\* runs, having asked for pages 1..n, the list collected is the
\* repositories of pages 1..n in page order, each once; when it has left,
\* the list is every repository of the organization in page order, each
\* once.  Every turn that stays in the loop asks for another page and
\* makes the list longer, never longer than the organization's list, so
\* the loop ends.
C17_PaginationFollowsNextPage ==
    /\ [](/\ spc = "list" =>
                FullNames(allRepositories)
                    = FullNames(FirstPages(IF listPage = 0 THEN 0 ELSE listPage - 1))
          /\ spc = "process" =>
                FullNames(allRepositories) = FullNames(upstream))
    /\ [][(spc = "list" /\ spc' = "list" /\ listPage' # listPage) =>
             /\ listPage' = (IF listPage = 0 THEN 1 ELSE listPage) + 1
             /\ Len(allRepositories') > Len(allRepositories)
             /\ Len(allRepositories') < Len(upstream)]_vars

C17_Witness ==
    /\ spc = "process"
    /\ listPage >= 2
    /\ Len(allRepositories) >= 2
    /\ FullNames(allRepositories) = FullNames(upstream)

\* the rows of the table the repository hands to the last bulk listing
FetchedByLast(m) ==
    CASE cret.op = "GetClusters" -> m.organization_id = cret.organization_id
      [] cret.op = "GetClustersBySecretID" ->
            m.organization_id = cret.organization_id /\ m.secret_id = cret.secret_id
      [] OTHER -> TRUE

\* C18: when GetAllClusters or GetClustersBySecretID has fetched the
\* records, it succeeds - also when records among them are unresolvable -
\* and returns exactly one handle for each fetched record the factory
\* resolves and none for any other record.
C18_AllAndBySecretSkipUnresolvable ==
    (cret.op \in {"GetAllClusters", "GetClustersBySecretID"} /\ ~cret.dbFails) =>
        /\ cret.err = Nil
        /\ \A j \in 1..Len(cret.clusters) : cret.clusters[j].nil = FALSE
        /\ \A i \in 1..Len(clusterModels) :
              Cardinality({j \in 1..Len(cret.clusters) :
                              cret.clusters[j].model = clusterModels[i]})
                = IF FetchedByLast(clusterModels[i]) /\ Resolvable(clusterModels[i])
                  THEN 1 ELSE 0
        /\ Len(cret.clusters)
              = Cardinality({i \in 1..Len(clusterModels) :
                                FetchedByLast(clusterModels[i]) /\ Resolvable(clusterModels[i])})

C18_Witness ==
    /\ cret.op = "GetClustersBySecretID" /\ ~cret.dbFails
    /\ Len(cret.clusters) >= 1
    /\ \E i, k \in 1..Len(clusterModels) :
          /\ i < k
          /\ FetchedByLast(clusterModels[i]) /\ ~Resolvable(clusterModels[i])
          /\ FetchedByLast(clusterModels[k]) /\ Resolvable(clusterModels[k])

\* the records behind a list of handles, in list order
ModelsOf(clusters) == [j \in 1..Len(clusters) |-> clusters[j].model]

\* C20: the handles a bulk listing returns are in fetch order: the records
\* behind them are the fetched sequence with the unresolvable records
\* taken out, nothing reordered, nothing twice.
C20_HandlesInFetchOrder ==
    (cret.op \in BulkOps /\ ~cret.dbFails) =>
        /\ ModelsOf(cret.clusters)
              = SelectSeq(clusterModels, LAMBDA m : FetchedByLast(m) /\ Resolvable(m))
        /\ \A j, k \in 1..Len(cret.clusters) :
              j # k => cret.clusters[j] # cret.clusters[k]

C20_Witness ==
    /\ cret.op = "GetAllClusters" /\ ~cret.dbFails
    /\ Len(cret.clusters) = 2
    /\ \E i \in 1..Len(clusterModels) :
          /\ cret.clusters[1].model.id < i
          /\ i < cret.clusters[2].model.id
          /\ FetchedByLast(clusterModels[i]) /\ ~Resolvable(clusterModels[i])

\* the calls of createGithubRepo in the order of its code
GithubOrder == <<"newGithubClientForUser", "Create", "CreateFile", "GetReleaseByTag",
                 "Download", "Extract", "CreateTree", "CreateCommit", "GetRef", "UpdateRef">>

\* the place of a call in GithubOrder, 0 for anything else
GithubPos(pc) ==
    IF \E k \in 1..Len(GithubOrder) : GithubOrder[k] = pc
    THEN CHOOSE k \in 1..Len(GithubOrder) : GithubOrder[k] = pc
    ELSE 0

C21_ReadsScopedToOrganization ==
    /\ (cret.op \in SingleOps /\ cret.cluster # NilCluster) =>
          /\ cret.cluster.model.organization_id = cret.organization_id
          /\ cret.op = "GetClusterByID" => cret.cluster.model.id = cret.id
          /\ cret.op = "GetClusterByName" => cret.cluster.model.name = cret.name
    /\ (cret.op \in SingleOps /\ ~cret.dbFails) =>
          \A i \in 1..Len(clusterModels) :
             (/\ IF cret.op = "GetClusterByID" THEN clusterModels[i].id = cret.id
                 ELSE clusterModels[i].name = cret.name
              /\ clusterModels[i].organization_id # cret.organization_id
              /\ MatchingLast = {}) =>
                cret.cluster = NilCluster /\ IsNotFound(cret.err)
    /\ cret.op \in {"GetClusters", "GetClustersBySecretID"} =>
          \A j \in 1..Len(cret.clusters) :
             cret.clusters[j].model.organization_id = cret.organization_id

C21_Witness ==
    /\ cret.op = "GetClusterByID" /\ ~cret.dbFails
    /\ \E i \in 1..Len(clusterModels) :
          /\ clusterModels[i].id = cret.id
          /\ clusterModels[i].organization_id # cret.organization_id
          /\ Resolvable(clusterModels[i])
    /\ cret.cluster = NilCluster
    /\ IsNotFound(cret.err)

\* C24: when the fetch of a bulk listing fails, GetClusters,
\* GetAllClusters and GetClustersBySecretID return the error of the fetch
\* and no list - whatever the table holds, never a nil error with an empty
\* or partial list.
C24_FetchFailureIsAnError ==
    (cret.op \in BulkOps /\ cret.dbFails) =>
        /\ cret.err # Nil
        /\ Cause(cret.err) = ErrDatabase
        /\ cret.clusters = <<>>

C24_Witness ==
    /\ cret.op = "GetAllClusters" /\ cret.dbFails
    /\ cret.err # Nil
    /\ \E i \in 1..Len(clusterModels) : Resolvable(clusterModels[i])

\* what a caller reads in a launch request: the names and, of every secret
\* request, the name and the tag list
Visible(req) ==
    [SpotguideName |-> req.SpotguideName, RepoOrganization |-> req.RepoOrganization,
     RepoName |-> req.RepoName,
     Secrets |-> [k \in 1..Len(req.Secrets) |->
                     [Name |-> req.Secrets[k].Name, Tags |-> req.Secrets[k].Tags]]]

\* the tags of a tag list
TagSet(tags) == {tags[t] : t \in 1..Len(tags)}

\* C22: from the call of LaunchSpotguide on, through every step and after
\* it returned nil or an error, the request reads as it did at the call:
\* template name, destination organization and name, and the name and tag
\* list of every secret request.  The repo:<org>/<name> tag is the last
\* tag of every secret handed to the store and is in no tag list of the
\* request.
C22_RequestReadsAsAtTheCall ==
    /\ [](/\ \A k \in 1..Len(request.Secrets) :
                ("repo:" \o RepoFullname(request)) \notin TagSet(request.Secrets[k].Tags)
          /\ \A k \in 1..Len(secretStore) :
                /\ Len(secretStore[k].Tags) = Len(request.Secrets[k].Tags) + 1
                /\ secretStore[k].Tags[Len(secretStore[k].Tags)]
                       = "repo:" \o RepoFullname(request))
    /\ [][lpc # "idle" => Visible(request') = Visible(request)]_vars

C22_Witness ==
    /\ lpc \in {"done", "failed"}
    /\ Len(request.Secrets) >= 1
    /\ request.Secrets[1].Tags = <<"app">>
    /\ request.Secrets[1].backing = <<"app", "repo:acme/proj1">>
    /\ Len(secretStore) >= 1
    /\ secretStore[1].Tags = <<"app", "repo:acme/proj1">>

\* the error ScrapeSpotguides returns when the listing of a page failed
IsListError(err) == err # Nil /\ Message(err) = "failed to list github repositories"

\* C23: ScrapeSpotguides writes to the catalog only after every page of
\* the listing was fetched: while pages are listed the catalog is as it
\* was when the run started; the loop over the repositories - the manifest
\* downloads and the catalog writes - is entered only with the complete
\* list; and a run that ends in the listing returns the listing error
\* with the catalog as it was when the run started.
C23_WritesOnlyAfterFullListing ==
    /\ [](/\ spc = "list" => spotguideRepos = atStart
          /\ spc = "process" => FullNames(allRepositories) = FullNames(upstream)
          /\ (spc = "idle" /\ sret.returned /\ IsListError(sret.err)) =>
                spotguideRepos = atStart)
    /\ [][/\ spotguideRepos' # spotguideRepos =>
                spc = "process" /\ FullNames(allRepositories) = FullNames(upstream)
          /\ (spc = "list" /\ spc' = "idle") =>
                /\ IsListError(sret'.err)
                /\ spotguideRepos' = atStart
          /\ (spc = "process" /\ spc' = "idle") => ~IsListError(sret'.err)]_vars

C23_Witness ==
    /\ spc = "idle" /\ sret.returned
    /\ IsListError(sret.err)
    /\ listPage >= 2
    /\ Len(allRepositories) >= 1
    /\ HasSpotguideTopic(allRepositories[1])
    /\ spotguideRepos = atStart

=============================================================================
